---- MODULE Spec2Model ----
(***************************************************************************)
(* A model of sql_select_parser: parse_query runs the recognizer           *)
(* (SQLParser::parse, grammar sql.pest) on the input text and hands the    *)
(* resulting concrete parse tree to the AST builder of src/src/lib.rs.     *)
(*                                                                         *)
(* Text is a sequence of one-character strings, so that slicing, digit     *)
(* parsing and case folding are computed and not assumed.  The input text  *)
(* is taken at the token level: a sequence of [kind, text] tokens with     *)
(* whitespace already skipped.  A parse tree node (pest's Pair<Rule>) is   *)
(* [rule, text, kids].  A 64-bit integer is kept as sign and decimal       *)
(* magnitude, so that no value is cut to the width of the checker's        *)
(* integers.                                                               *)
(***************************************************************************)
EXTENDS Integers, Sequences, FiniteSets, TLC

VARIABLES
    input,   \* the token sequence given to parse_query (<<>> in SpecBuilder)
    tree,    \* <<>> or <<node>>: the parse tree the builder stage is applied to
    stage,   \* the function the call enters
    result,  \* <<>> before the call, <<r>> after it
    pc       \* "ready" | "done"

vars == <<input, tree, stage, result, pc>>

(***************************************************************************)
(* Bounds of the enumerated inputs.                                        *)
(***************************************************************************)
MaxCols == 3
MaxDepth == 2
MaxArgs == 2
MaxCondKids == 4

(***************************************************************************)
(* Text.                                                                   *)
(***************************************************************************)
RECURSIVE Flatten(_)
Flatten(ss) == IF ss = <<>> THEN <<>> ELSE Head(ss) \o Flatten(Tail(ss))

Min(S) == CHOOSE m \in S : \A n \in S : m <= n

UpperCase == <<"A","B","C","D","E","F","G","H","I","J","K","L","M",
               "N","O","P","Q","R","S","T","U","V","W","X","Y","Z">>
LowerCase == <<"a","b","c","d","e","f","g","h","i","j","k","l","m",
               "n","o","p","q","r","s","t","u","v","w","x","y","z">>

to_ascii_lowercase(c) ==
    IF \E i \in 1..26 : UpperCase[i] = c
    THEN LowerCase[CHOOSE i \in 1..26 : UpperCase[i] = c]
    ELSE c

eq_ignore_ascii_case(a, b) ==
    /\ Len(a) = Len(b)
    /\ \A i \in 1..Len(a) : to_ascii_lowercase(a[i]) = to_ascii_lowercase(b[i])

Digits == <<"0","1","2","3","4","5","6","7","8","9">>
IsDigit(c) == \E i \in 1..10 : Digits[i] = c
DigitVal(c) == (CHOOSE i \in 1..10 : Digits[i] = c) - 1

RECURSIVE StripZeros(_)
StripZeros(ds) ==
    IF Len(ds) > 1 /\ Head(ds) = 0 THEN StripZeros(Tail(ds)) ELSE ds

\* lexicographic a <= b for digit sequences of the same length
RECURSIVE DigitsLeq(_, _)
DigitsLeq(a, b) ==
    IF a = <<>> THEN TRUE
    ELSE IF Head(a) # Head(b) THEN Head(a) < Head(b)
    ELSE DigitsLeq(Tail(a), Tail(b))

\* |i64::MAX| = 9223372036854775807 and |i64::MIN| = 9223372036854775808
I64MaxMag == <<9,2,2,3,3,7,2,0,3,6,8,5,4,7,7,5,8,0,7>>
I64MinMag == <<9,2,2,3,3,7,2,0,3,6,8,5,4,7,7,5,8,0,8>>

I64(neg, mag) == [neg |-> neg /\ mag # <<0>>, mag |-> mag]

\* str::parse::<i64>: an optional sign, then one or more decimal digits,
\* the value within -2^63 .. 2^63-1.
ParseI64(s) ==
    LET signed == Len(s) > 0 /\ s[1] \in {"+", "-"}
        neg    == Len(s) > 0 /\ s[1] = "-"
        body   == IF signed THEN Tail(s) ELSE s
    IN  IF body = <<>> \/ \E i \in 1..Len(body) : ~IsDigit(body[i])
        THEN [ok |-> FALSE, val |-> <<>>]
        ELSE LET mag   == StripZeros([i \in 1..Len(body) |-> DigitVal(body[i])])
                 limit == IF neg THEN I64MinMag ELSE I64MaxMag
             IN  IF Len(mag) < Len(limit)
                    \/ (Len(mag) = Len(limit) /\ DigitsLeq(mag, limit))
                 THEN [ok |-> TRUE, val |-> <<I64(neg, mag)>>]
                 ELSE [ok |-> FALSE, val |-> <<>>]

(***************************************************************************)
(* Parse tree nodes and the AST.                                           *)
(***************************************************************************)
Pair(rule, text, kids) == [rule |-> rule, text |-> text, kids |-> kids]

Column(name) == [type |-> "Column", name |-> name, arguments |-> <<>>]
Function(name, arguments) ==
    [type |-> "Function", name |-> name, arguments |-> arguments]

Simple(name) == [type |-> "Simple", name |-> name, query |-> <<>>]
Subquery(q) == [type |-> "Subquery", name |-> <<>>, query |-> <<q>>]

Number(n) == [type |-> "Number", v |-> <<n>>]
String(s) == [type |-> "String", v |-> s]
Boolean(b) == [type |-> "Boolean", v |-> <<b>>]

Condition(left, operator, right) ==
    [left |-> left, operator |-> operator, right |-> right]

\* where_clause is an Option: <<>> is None, <<c>> is Some(c)
SelectQuery(columns, table, where_clause) ==
    [columns |-> columns, table |-> table, where_clause |-> where_clause]

(***************************************************************************)
(* Result<T, ParseError>, with the record of what the call did: one        *)
(* <<"call", f>> per builder function entered and one <<"raise", e>> where *)
(* an error value is created.  val is <<>> on Err and <<v>> on Ok.         *)
(***************************************************************************)
Ok(v, log) == [ok |-> TRUE, val |-> <<v>>, err |-> "none", log |-> log]
Err(e, log) ==
    [ok |-> FALSE, val |-> <<>>, err |-> e, log |-> Append(log, <<"raise", e>>)]
\* the ? operator on a failed callee: its error is returned as it is
Try(r, log) == [ok |-> FALSE, val |-> <<>>, err |-> r.err, log |-> log \o r.log]
Call(f) == <<<<"call", f>>>>

(***************************************************************************)
(* The AST builder (src/src/lib.rs).                                       *)
(***************************************************************************)
\* let v = r?; rest: a failed r is returned as it is, else rest goes on with
\* the value of r
Then(r, log, rest(_, _)) ==
    IF ~r.ok THEN Try(r, log) ELSE rest(r.val[1], log \o r.log)

number_value_saturating(num, log) ==
    IF num.ok THEN Ok(Number(num.val[1]), log)
    ELSE Ok(Number(I64(FALSE, I64MaxMag)), log)

number_value(num, log) ==
    IF num.ok THEN Ok(Number(num.val[1]), log) ELSE Err("InvalidNumber", log)

\* &s[1..s.len() - 1]: the slice panics on a text shorter than two bytes
string_value(s, log) ==
    IF Len(s) < 2 THEN Err("panic", log)
    ELSE Ok(String(SubSeq(s, 2, Len(s) - 1)), log)

string_value_keeps_closing_quote(s, log) ==
    IF Len(s) < 2 THEN Err("panic", log)
    ELSE Ok(String(SubSeq(s, 2, Len(s))), log)

parse_value_keeps_closing_quote(pair) ==
    LET log == Call("parse_value") IN
    IF pair.kids = <<>> THEN Err("ExpectedInnerRuleForValue", log)
    ELSE CASE pair.kids[1].rule = "number" ->
                number_value(ParseI64(pair.kids[1].text), log)
           [] pair.kids[1].rule = "string" ->
                string_value_keeps_closing_quote(pair.kids[1].text, log)
           [] pair.kids[1].rule = "boolean" ->
                Ok(Boolean(eq_ignore_ascii_case(pair.kids[1].text,
                                                <<"t","r","u","e">>)), log)
           [] OTHER -> Err("UnexpectedRuleInValue", log)

parse_value(pair) ==
    LET log == Call("parse_value") IN
    IF pair.kids = <<>> THEN Err("ExpectedInnerRuleForValue", log)
    ELSE CASE pair.kids[1].rule = "number" ->
                number_value(ParseI64(pair.kids[1].text), log)
           [] pair.kids[1].rule = "string" ->
                string_value(pair.kids[1].text, log)
           [] pair.kids[1].rule = "boolean" ->
                Ok(Boolean(eq_ignore_ascii_case(pair.kids[1].text,
                                                <<"t","r","u","e">>)), log)
           [] OTHER -> Err("UnexpectedRuleInValue", log)

parse_condition_operator_from_left(pair) ==
    LET log == Call("parse_condition")
        inner_rules == pair.kids
    IN  IF Len(inner_rules) < 1 THEN Err("MissingLeftOperand", log)
        ELSE IF Len(inner_rules) < 2 THEN Err("MissingOperator", log)
        ELSE IF Len(inner_rules) < 3 THEN Err("MissingRightOperand", log)
        ELSE Then(parse_value(inner_rules[3]), log,
                  LAMBDA right, l :
                    Ok(Condition(inner_rules[1].text, inner_rules[1].text, right), l))

parse_condition(pair) ==
    LET log == Call("parse_condition")
        inner_rules == pair.kids
    IN  IF Len(inner_rules) < 1 THEN Err("MissingLeftOperand", log)
        ELSE IF Len(inner_rules) < 2 THEN Err("MissingOperator", log)
        ELSE IF Len(inner_rules) < 3 THEN Err("MissingRightOperand", log)
        ELSE Then(parse_value(inner_rules[3]), log,
                  LAMBDA right, l :
                    Ok(Condition(inner_rules[1].text, inner_rules[2].text, right), l))

where_parser_last_condition(pair) ==
    LET log == Call("where_parser")
        found == {i \in 1..Len(pair.kids) : pair.kids[i].rule = "condition"}
    IN  IF found = {} THEN Err("NoConditionInWhereClause", log)
        ELSE Then(parse_condition(pair.kids[CHOOSE i \in found :
                                               \A j \in found : j <= i]), log,
                  LAMBDA condition, l : Ok(condition, l))

\* the loop returns at the first condition child
where_parser(pair) ==
    LET log == Call("where_parser")
        found == {i \in 1..Len(pair.kids) : pair.kids[i].rule = "condition"}
    IN  IF found = {} THEN Err("NoConditionInWhereClause", log)
        ELSE Then(parse_condition(pair.kids[Min(found)]), log,
                  LAMBDA condition, l : Ok(condition, l))

RECURSIVE parse_select_item(_), collect_arguments(_, _, _, _)

RECURSIVE collect_arguments_prepend(_, _, _, _)
collect_arguments_prepend(parts, i, arguments, log) ==
    IF i > Len(parts) THEN Ok(arguments, log)
    ELSE Then(parse_select_item(parts[i]), log,
              LAMBDA item, l :
                collect_arguments_prepend(parts, i + 1, <<item>> \o arguments, l))

\* parts.map(parse_select_item).collect::<Result<Vec<_>, _>>()
collect_arguments(parts, i, arguments, log) ==
    IF i > Len(parts) THEN Ok(arguments, log)
    ELSE Then(parse_select_item(parts[i]), log,
              LAMBDA item, l :
                collect_arguments(parts, i + 1, Append(arguments, item), l))

parse_select_item(pair) ==
    LET log == Call("parse_select_item") IN
    IF pair.kids = <<>> THEN Err("MissingSelectItem", log)
    ELSE LET inner == pair.kids[1] IN
         CASE inner.rule = "identifier" -> Ok(Column(inner.text), log)
           [] inner.rule = "function_call" ->
                IF inner.kids = <<>> THEN Err("FunctionNameMissing", log)
                ELSE Then(collect_arguments(inner.kids, 2, <<>>, log), <<>>,
                          LAMBDA arguments, l :
                            Ok(Function(inner.kids[1].text, arguments), l))
           [] inner.rule = "star" -> Ok(Column(<<"*">>), log)
           [] OTHER -> Err("UnexpectedRuleInSelectItem", log)

RECURSIVE selected_rows_loop_prepend(_, _, _, _)
selected_rows_loop_prepend(kids, i, selected_rows, log) ==
    IF i > Len(kids) THEN Ok(selected_rows, log)
    ELSE IF kids[i].rule = "select_item"
    THEN Then(parse_select_item(kids[i]), log,
              LAMBDA row, l :
                selected_rows_loop_prepend(kids, i + 1, <<row>> \o selected_rows, l))
    ELSE Err("UnexpectedRuleInSelectListOther", log)

RECURSIVE selected_rows_loop(_, _, _, _)
selected_rows_loop(kids, i, selected_rows, log) ==
    IF i > Len(kids) THEN Ok(selected_rows, log)
    ELSE IF kids[i].rule = "select_item"
    THEN Then(parse_select_item(kids[i]), log,
              LAMBDA row, l :
                selected_rows_loop(kids, i + 1, Append(selected_rows, row), l))
    ELSE Err("UnexpectedRuleInSelectListOther", log)

selected_rows_parser_skip_first(pair) ==
    selected_rows_loop(pair.kids, 2, <<>>, Call("selected_rows_parser"))

selected_rows_parser(pair) ==
    selected_rows_loop(pair.kids, 1, <<>>, Call("selected_rows_parser"))

RECURSIVE build_query_structure(_), build_query_loop(_, _, _, _, _, _), table_parser(_)

table_parser_drops_where(pair) ==
    LET log == Call("table_parser") IN
    IF pair.kids = <<>> THEN Err("MissingTableName", log)
    ELSE LET inner == pair.kids[1] IN
         CASE inner.rule = "identifier" -> Ok(Simple(inner.text), log)
           [] inner.rule = "select_query" ->
                Then(build_query_structure(inner), log,
                     LAMBDA subquery, l :
                       Ok(Subquery([subquery EXCEPT !.where_clause = <<>>]), l))
           [] OTHER -> Err("UnexpectedRuleInTable", log)

table_parser(pair) ==
    LET log == Call("table_parser") IN
    IF pair.kids = <<>> THEN Err("MissingTableName", log)
    ELSE LET inner == pair.kids[1] IN
         CASE inner.rule = "identifier" -> Ok(Simple(inner.text), log)
           [] inner.rule = "select_query" ->
                Then(build_query_structure(inner), log,
                     LAMBDA subquery, l : Ok(Subquery(subquery), l))
           [] OTHER -> Err("UnexpectedRuleInTable", log)

\* a failed select list is passed over and the loop goes on
KeepGoing(r, log, columns, rest(_, _)) ==
    rest(IF r.ok THEN r.val[1] ELSE columns, log \o r.log)

RECURSIVE build_query_loop_keeps_going(_, _, _, _, _, _)
build_query_loop_keeps_going(kids, i, columns, table, where_clause, log) ==
    IF i > Len(kids)
    THEN IF table = <<>> THEN Err("TableNotSpecified", log)
         ELSE Ok(SelectQuery(columns, table[1], where_clause), log)
    ELSE CASE kids[i].rule = "select_list" ->
                KeepGoing(selected_rows_parser(kids[i]), log, columns,
                     LAMBDA v, l :
                       build_query_loop_keeps_going(kids, i + 1, v, table,
                                                    where_clause, l))
           [] kids[i].rule = "table" ->
                Then(table_parser(kids[i]), log,
                     LAMBDA v, l :
                       build_query_loop_keeps_going(kids, i + 1, columns, <<v>>,
                                                    where_clause, l))
           [] kids[i].rule = "where_clause" ->
                Then(where_parser(kids[i]), log,
                     LAMBDA v, l :
                       build_query_loop_keeps_going(kids, i + 1, columns, table,
                                                    <<v>>, l))
           [] OTHER ->
                build_query_loop_keeps_going(kids, i + 1, columns, table,
                                             where_clause, log)

\* the for loop of build_query_structure and the Ok after it; table and
\* where_clause are Options
build_query_loop(kids, i, columns, table, where_clause, log) ==
    IF i > Len(kids)
    THEN IF table = <<>> THEN Err("TableNotSpecified", log)
         ELSE Ok(SelectQuery(columns, table[1], where_clause), log)
    ELSE CASE kids[i].rule = "select_list" ->
                Then(selected_rows_parser(kids[i]), log,
                     LAMBDA v, l :
                       build_query_loop(kids, i + 1, v, table, where_clause, l))
           [] kids[i].rule = "table" ->
                Then(table_parser(kids[i]), log,
                     LAMBDA v, l :
                       build_query_loop(kids, i + 1, columns, <<v>>, where_clause, l))
           [] kids[i].rule = "where_clause" ->
                Then(where_parser(kids[i]), log,
                     LAMBDA v, l :
                       build_query_loop(kids, i + 1, columns, table, <<v>>, l))
           [] OTHER ->
                build_query_loop(kids, i + 1, columns, table, where_clause, log)

build_query_structure(pair) ==
    build_query_loop(pair.kids, 1, <<>>, <<>>, <<>>, Call("build_query_structure"))

(***************************************************************************)
(* The recognizer: SQLParser::parse(Rule::select_query, input).  The       *)
(* grammar is the one of the specification:                                *)
(*   select_query  := SELECT select_list FROM table (WHERE condition)?     *)
(*   select_list   := select_item (',' select_item)*                       *)
(*   select_item   := function_call | identifier | '*'                     *)
(*   function_call := identifier '(' select_item (',' select_item)* ')'    *)
(*   table         := identifier | '(' select_query ')' alias?             *)
(*   condition     := operand comparison_op value                          *)
(*   value         := number | string | boolean                            *)
(* read as a PEG: ordered choice, greedy repetition, and a parse that      *)
(* succeeds when the rule matches a prefix of the input.  select_query is  *)
(* both the rule parse_query starts from and the rule nested between the   *)
(* parentheses of a table, so it cannot demand the end of the input.       *)
(* Commas and parentheses produce no node (the builder would reject them   *)
(* in a select list); SELECT, FROM and WHERE are nodes, which the builder  *)
(* passes over.                                                            *)
(***************************************************************************)
Tok(kind, text) == [kind |-> kind, text |-> text]

KindAt(toks, i) == IF i >= 1 /\ i <= Len(toks) THEN toks[i].kind ELSE "EOI"

\* the text of the tokens i .. j-1
SpanText(toks, i, j) == Flatten([k \in 1..(j - i) |-> toks[i + k - 1].text])

Leaf(toks, i) == Pair(toks[i].kind, toks[i].text, <<>>)

NoMatch == [ok |-> FALSE, node |-> <<>>, next |-> 0]
Match(node, next) == [ok |-> TRUE, node |-> <<node>>, next |-> next]

\* a sequence: what follows a match m, or no match
AndThen(m, rest(_)) == IF m.ok THEN rest(m) ELSE NoMatch
\* rule ~ tail*: tail is [items, next]
With(tail, rest(_)) == rest(tail)
\* an optional part: the match, or nothing matched at position i
Optional(m, i) == IF m.ok THEN m ELSE [ok |-> FALSE, node |-> <<>>, next |-> i]

RECURSIVE rule_select_item(_, _), rule_item_tail(_, _, _), rule_function_call(_, _)

\* (',' select_item)* after the items already matched, which end before token i
rule_item_tail(toks, i, items) ==
    IF KindAt(toks, i) = "comma"
    THEN With(rule_select_item(toks, i + 1),
              LAMBDA it :
                IF it.ok THEN rule_item_tail(toks, it.next, Append(items, it.node[1]))
                ELSE [items |-> items, next |-> i])
    ELSE [items |-> items, next |-> i]

rule_function_call(toks, i) ==
    IF KindAt(toks, i) = "identifier" /\ KindAt(toks, i + 1) = "lparen"
    THEN AndThen(rule_select_item(toks, i + 2),
           LAMBDA first :
             With(rule_item_tail(toks, first.next, first.node),
               LAMBDA rest :
                 IF KindAt(toks, rest.next) = "rparen"
                 THEN Match(Pair("function_call", SpanText(toks, i, rest.next + 1),
                                 <<Leaf(toks, i)>> \o rest.items),
                            rest.next + 1)
                 ELSE NoMatch))
    ELSE NoMatch

rule_select_item(toks, i) ==
    With(rule_function_call(toks, i),
      LAMBDA fc :
        IF fc.ok
        THEN Match(Pair("select_item", fc.node[1].text, fc.node), fc.next)
        ELSE IF KindAt(toks, i) \in {"identifier", "star"}
        THEN Match(Pair("select_item", toks[i].text, <<Leaf(toks, i)>>), i + 1)
        ELSE NoMatch)

rule_select_list(toks, i) ==
    AndThen(rule_select_item(toks, i),
      LAMBDA first :
        With(rule_item_tail(toks, first.next, first.node),
          LAMBDA rest :
            Match(Pair("select_list", SpanText(toks, i, rest.next), rest.items),
                  rest.next)))

rule_value(toks, i) ==
    IF KindAt(toks, i) \in {"number", "string", "boolean"}
    THEN Match(Pair("value", toks[i].text, <<Leaf(toks, i)>>), i + 1)
    ELSE NoMatch

rule_condition(toks, i) ==
    IF KindAt(toks, i) = "identifier" /\ KindAt(toks, i + 1) = "comparison_op"
    THEN AndThen(rule_value(toks, i + 2),
           LAMBDA v :
             Match(Pair("condition", SpanText(toks, i, v.next),
                        <<Leaf(toks, i), Leaf(toks, i + 1), v.node[1]>>),
                   v.next))
    ELSE NoMatch

rule_where_clause(toks, i) ==
    IF KindAt(toks, i) = "WHERE"
    THEN AndThen(rule_condition(toks, i + 1),
           LAMBDA c :
             Match(Pair("where_clause", SpanText(toks, i, c.next),
                        <<Leaf(toks, i), c.node[1]>>),
                   c.next))
    ELSE NoMatch

\* alias := AS? identifier
rule_alias(toks, i) ==
    IF KindAt(toks, i) = "AS" /\ KindAt(toks, i + 1) = "identifier"
    THEN Match(Pair("alias", SpanText(toks, i, i + 2), <<Leaf(toks, i + 1)>>), i + 2)
    ELSE IF KindAt(toks, i) = "identifier"
    THEN Match(Pair("alias", toks[i].text, <<Leaf(toks, i)>>), i + 1)
    ELSE NoMatch

RECURSIVE rule_select_query(_, _), rule_table(_, _)

rule_table(toks, i) ==
    IF KindAt(toks, i) = "identifier"
    THEN Match(Pair("table", toks[i].text, <<Leaf(toks, i)>>), i + 1)
    ELSE IF KindAt(toks, i) = "lparen"
    THEN AndThen(rule_select_query(toks, i + 1),
           LAMBDA q :
             IF KindAt(toks, q.next) = "rparen"
             THEN With(Optional(rule_alias(toks, q.next + 1), q.next + 1),
                    LAMBDA a :
                      Match(Pair("table", SpanText(toks, i, a.next),
                                 q.node \o a.node),
                            a.next))
             ELSE NoMatch)
    ELSE NoMatch

rule_select_query(toks, i) ==
    IF KindAt(toks, i) # "SELECT" THEN NoMatch
    ELSE AndThen(rule_select_list(toks, i + 1),
           LAMBDA sl :
             IF KindAt(toks, sl.next) # "FROM" THEN NoMatch
             ELSE AndThen(rule_table(toks, sl.next + 1),
                    LAMBDA tb :
                      With(Optional(rule_where_clause(toks, tb.next), tb.next),
                        LAMBDA wc :
                          Match(Pair("select_query", SpanText(toks, i, wc.next),
                                     <<Leaf(toks, i), sl.node[1],
                                       Leaf(toks, sl.next), tb.node[1]>>
                                     \o wc.node),
                                wc.next))))

\* Ok(pairs) or Err: pairs holds the one select_query pair that matched
SQLParser_parse(toks) ==
    With(rule_select_query(toks, 1),
      LAMBDA q : [ok |-> q.ok, pairs |-> q.node])

\* what parse_query does with the recognizer's answer
query_from_pairs(parsed, log) ==
    IF ~parsed.ok THEN Err("ParsingError", log)
    ELSE IF parsed.pairs = <<>> THEN Err("NoQueryFound", log)
    ELSE Then(build_query_structure(parsed.pairs[1]), log, LAMBDA q, l : Ok(q, l))

query_from_pairs_no_query_found(parsed, log) ==
    IF ~parsed.ok \/ parsed.pairs = <<>> THEN Err("NoQueryFound", log)
    ELSE Then(build_query_structure(parsed.pairs[1]), log, LAMBDA q, l : Ok(q, l))

query_from_pairs_builds_anyway(parsed, log) ==
    Then(build_query_structure(IF parsed.ok THEN parsed.pairs[1]
                               ELSE Pair("select_query", <<>>, <<>>)),
         log, LAMBDA q, l : Ok(q, l))

parse_query_no_query_found(toks) ==
    query_from_pairs_no_query_found(SQLParser_parse(toks), Call("parse_query"))

parse_query_builds_anyway(toks) ==
    query_from_pairs_builds_anyway(SQLParser_parse(toks), Call("parse_query"))

parse_query(toks) ==
    query_from_pairs(SQLParser_parse(toks), Call("parse_query"))

(***************************************************************************)
(* The input texts.  ValidInputs are the texts the grammar derives, built  *)
(* bottom up; DamagedInputs are valid texts with one token deleted, cut    *)
(* short, or followed by further tokens.                                   *)
(***************************************************************************)
t_name == <<"n","a","m","e">>
t_age == <<"a","g","e">>
t_id == <<"i","d">>
t_users == <<"u","s","e","r","s">>
t_products == <<"p","r","o","d","u","c","t","s">>
t_sub == <<"s","u","b">>
t_b == <<"b">>
t_COUNT == <<"C","O","U","N","T">>
t_role == <<"r","o","l","e">>
t_active == <<"a","c","t","i","v","e">>
t_price == <<"p","r","i","c","e">>
t_stock == <<"s","t","o","c","k">>
t_100 == <<"1","0","0">>
t_50 == <<"5","0">>
t_i64max == <<"9","2","2","3","3","7","2","0","3","6","8","5","4","7","7","5","8","0","7">>
t_i64over == <<"9","2","2","3","3","7","2","0","3","6","8","5","4","7","7","5","8","0","8">>
t_i64min_under == <<"9","2","2","3","3","7","2","0","3","6","8","5","4","7","7","5","8","0","9">>
t_admin == <<"'","a","d","m","i","n","'">>
t_empty == <<"'","'">>
t_esc == <<"'","A","\\","n","'">>
t_true == <<"t","r","u","e">>
t_TRUE == <<"T","r","U","E">>
t_false == <<"f","a","l","s","e">>

Ident(t) == Tok("identifier", t)
KwSelect == Tok("SELECT", <<"S","E","L","E","C","T">>)
KwFrom == Tok("FROM", <<"F","R","O","M">>)
KwWhere == Tok("WHERE", <<"w","h","e","r","e">>)
KwAs == Tok("AS", <<"A","S">>)
Star == Tok("star", <<"*">>)
Comma == Tok("comma", <<",">>)
LParen == Tok("lparen", <<"(">>)
RParen == Tok("rparen", <<")">>)
Op(t) == Tok("comparison_op", t)
Num(t) == Tok("number", t)
Str(t) == Tok("string", t)
Bool(t) == Tok("boolean", t)

Operators == {<<"=">>, <<">">>, <<"<">>, <<">","=">>, <<"<","=">>, <<"!","=">>}

SeqsUpTo(S, n) == UNION {[1..k -> S] : k \in 1..n}

RECURSIVE JoinComma(_)
JoinComma(parts) ==
    IF Len(parts) = 1 THEN parts[1]
    ELSE parts[1] \o <<Comma>> \o JoinComma(Tail(parts))

ColumnNames == {t_name, t_age}

\* function calls nested to depth d: the first argument may be a call
RECURSIVE CallTexts(_)
CallTexts(d) ==
    IF d = 0 THEN {}
    ELSE {<<Ident(t_COUNT), LParen>> \o JoinComma(<<first>> \o rest) \o <<RParen>> :
            first \in {<<Ident(t_id)>>, <<Star>>} \cup CallTexts(d - 1),
            rest \in {[i \in 1..k |-> <<Ident(t_name)>>] : k \in 0..(MaxArgs - 1)}}

SimpleListTexts ==
    {JoinComma([i \in 1..Len(cs) |-> <<Ident(cs[i])>>]) : cs \in SeqsUpTo(ColumnNames, MaxCols)}

ListTexts ==
    SimpleListTexts \cup {<<Star>>} \cup CallTexts(MaxDepth)
    \cup {c \o <<Comma, Ident(t_id)>> : c \in CallTexts(MaxDepth)}

ConditionTexts ==
    {<<Ident(t_price), Op(o), Num(t_100)>> : o \in Operators}
    \cup {<<Ident(t_role), Op(<<"=">>), Str(s)>> : s \in {t_admin, t_empty, t_esc}}
    \cup {<<Ident(t_active), Op(<<"=">>), Bool(b)>> : b \in {t_true, t_TRUE, t_false}}
    \cup {<<Ident(t_price), Op(<<"<">>), Num(t_i64max)>>}

WhereTexts == {<<>>} \cup {<<KwWhere>> \o c : c \in ConditionTexts}

FlatQueries ==
    {<<KwSelect>> \o l \o <<KwFrom, Ident(t_users)>> \o w :
        l \in ListTexts, w \in WhereTexts}

OuterLists == {<<Ident(t_name)>>, <<Ident(t_id), Comma, Ident(t_name)>>}
OuterWheres == {<<>>, <<KwWhere, Ident(t_active), Op(<<"=">>), Bool(t_true)>>}
Aliases == {<<>>, <<Ident(t_b)>>, <<KwAs, Ident(t_sub)>>}

\* queries nested to subquery depth d
RECURSIVE NestedQueries(_)
NestedQueries(d) ==
    LET flat == {<<KwSelect>> \o l \o <<KwFrom, Ident(t_users)>> \o w :
                    l \in OuterLists \cup {<<Ident(t_name), Comma, Ident(t_age)>>},
                    w \in OuterWheres}
    IN  IF d = 0 THEN flat
        ELSE flat \cup
             {<<KwSelect>> \o l \o <<KwFrom, LParen>> \o q \o <<RParen>> \o a \o w :
                 l \in OuterLists, q \in NestedQueries(d - 1), a \in Aliases,
                 w \in OuterWheres}

ValidInputs == FlatQueries \cup NestedQueries(MaxDepth)

SelectFromUsers == <<KwSelect, KwFrom, Ident(t_users)>>
SelectNameAge == <<KwSelect, Ident(t_name), Comma, Ident(t_age)>>
SelectWhereActive ==
    <<KwSelect, Ident(t_name), KwFrom, Ident(t_users), KwWhere, Ident(t_active)>>
SelectTwoConditions ==
    <<KwSelect, Ident(t_id), KwFrom, Ident(t_products), KwWhere, Ident(t_price),
      Op(<<">">>), Num(t_100), Tok("AND", <<"A","N","D">>), Ident(t_stock),
      Op(<<"<">>), Num(t_50)>>

DeleteAt(s, i) == SubSeq(s, 1, i - 1) \o SubSeq(s, i + 1, Len(s))

DamageBase == NestedQueries(1) \cup
    {<<KwSelect>> \o l \o <<KwFrom, Ident(t_users)>> \o w :
        l \in CallTexts(1), w \in OuterWheres}

DamagedInputs ==
    UNION {{DeleteAt(s, i) : i \in 1..Len(s)} : s \in DamageBase}
    \cup UNION {{SubSeq(s, 1, i) : i \in 0..(Len(s) - 1)} : s \in DamageBase}
    \cup {s \o <<Tok("AND", <<"A","N","D">>), Ident(t_stock), Op(<<"<">>), Num(t_50)>> :
            s \in DamageBase}
    \cup {SelectFromUsers, SelectNameAge, SelectWhereActive, SelectTwoConditions}

\* texts the grammar derives whose number does not fit 64 bits
OutOfRangeInputs ==
    {<<KwSelect>> \o l \o <<KwFrom, Ident(t_users), KwWhere, Ident(t_price),
                             Op(<<"<">>), Num(t_i64over)>> : l \in ListTexts}
    \cup {<<KwSelect, Ident(t_name), KwFrom, LParen>> \o q \o <<RParen>> :
            q \in {<<KwSelect, Ident(t_id), KwFrom, Ident(t_users), KwWhere,
                     Ident(t_price), Op(<<"=">>), Num(t_i64over)>>}}

\* what the lexical rules make of an operator the grammar does not have:
\* "<>" is "<" and ">", "==" is "=" and "=", LIKE is an identifier, "!" no token
UnsupportedOperators ==
    {<<Op(<<"<">>), Op(<<">">>)>>, <<Op(<<"=">>), Op(<<"=">>)>>,
     <<Ident(<<"L","I","K","E">>)>>, <<Tok("unknown", <<"!">>)>>, <<>>}

UnsupportedOperatorInputs ==
    {<<KwSelect, Ident(t_id), KwFrom, Ident(t_products), KwWhere, Ident(t_price)>>
        \o o \o <<Num(t_100)>> : o \in UnsupportedOperators}
    \cup {<<KwSelect, Ident(t_name), KwFrom, LParen, KwSelect, Ident(t_id), KwFrom,
             Ident(t_products), KwWhere, Ident(t_price)>>
            \o o \o <<Num(t_100), RParen>> : o \in UnsupportedOperators}
    \cup {<<KwSelect, Ident(t_name), KwFrom, LParen, KwSelect, Ident(t_id), KwFrom,
             Ident(t_products), RParen, KwWhere, Ident(t_price)>>
            \o o \o <<Num(t_50)>> : o \in UnsupportedOperators}

\* texts the grammar derives with each supported operator inside and outside
\* a subquery
NestedOperatorInputs ==
    {<<KwSelect, Ident(t_name), KwFrom, LParen, KwSelect, Ident(t_id), KwFrom,
       Ident(t_products), KwWhere, Ident(t_price), Op(o1), Num(t_100), RParen,
       KwWhere, Ident(t_stock), Op(o2), Num(t_50)>> : o1 \in Operators, o2 \in Operators}

Inputs == ValidInputs \cup OutOfRangeInputs \cup DamagedInputs
          \cup UnsupportedOperatorInputs \cup NestedOperatorInputs

(***************************************************************************)
(* parse_query applied to an input text.                                   *)
(***************************************************************************)
Init ==
    /\ input \in Inputs
    /\ tree = <<>>
    /\ stage = "parse_query"
    /\ result = <<>>
    /\ pc = "ready"

ParseQuery ==
    /\ pc = "ready"
    /\ stage = "parse_query"
    /\ result' = <<parse_query(input)>>
    /\ tree' = SQLParser_parse(input).pairs
    /\ pc' = "done"
    /\ UNCHANGED <<input, stage>>

Next == ParseQuery

Spec == Init /\ [][Next]_vars

ParseQueryAgain_sees_previous ==
    /\ pc = "done"
    /\ stage = "parse_query"
    /\ result' = Append(result, IF result[1].ok
                                THEN Err("NoQueryFound", Call("parse_query"))
                                ELSE parse_query(input))
    /\ tree' = SQLParser_parse(input).pairs
    /\ pc' = "again"
    /\ UNCHANGED <<input, stage>>

\* a second invocation on the same text: lib.rs holds no static, no global
\* and no interior mutability, so all it reads is its argument
ParseQueryAgain ==
    /\ pc = "done"
    /\ stage = "parse_query"
    /\ result' = Append(result, parse_query(input))
    /\ tree' = SQLParser_parse(input).pairs
    /\ pc' = "again"
    /\ UNCHANGED <<input, stage>>

NextTwice == ParseQuery \/ ParseQueryAgain

SpecTwice == Init /\ [][NextTwice]_vars

(***************************************************************************)
(* The builder functions applied to parse trees.  The trees are any        *)
(* rule-tagged trees within the bounds, not only those a grammar derives:  *)
(* the builder checks each node it reads (a missing child, an unexpected   *)
(* rule), and those checks are what the trees below exercise.  Token texts *)
(* stay lexically valid (a string node holds a quoted literal).            *)
(***************************************************************************)
Node(rule, text) == Pair(rule, text, <<>>)
Inner(rule, kids) == Pair(rule, Flatten([i \in 1..Len(kids) |-> kids[i].text]), kids)

SeqsFromZero(S, n) == {<<>>} \cup SeqsUpTo(S, n)

ValueOf(leaf) == Inner("value", <<leaf>>)

ValueNodes ==
    {Inner("value", <<>>), ValueOf(Node("identifier", t_name)),
     Inner("value", <<Node("string", t_admin), Node("number", t_100)>>)}
    \cup {ValueOf(Node("number", n)) :
            n \in {t_100, t_50, t_i64max, t_i64over, <<"-">> \o t_i64over,
                   <<"-">> \o t_100, <<"0","0","7">>, <<"1","x">>,
                   <<"-">> \o t_i64min_under, <<"0","0","0">> \o t_i64max,
                   <<"0">> \o t_i64over, t_i64max \o <<"0">>,
                   <<"+","5">>, <<"-","0">>, <<"0">>, <<"-">>, <<"1","0","0"," ">>,
                   <<"1","-","2">>}}
    \cup {ValueOf(Node("string", t)) :
            t \in {t_admin, t_empty, t_esc, <<"'","A","d","'","'","x","'">>, <<"'"," ","'">>}}
    \cup {ValueOf(Node("boolean", t)) : t \in {t_true, t_TRUE, t_false}}

ConditionKidPool ==
    {Node("identifier", t_price), Node("comparison_op", <<">">>),
     ValueOf(Node("number", t_100)), Inner("value", <<>>)}

ConditionNodes ==
    {Inner("condition", kids) : kids \in SeqsFromZero(ConditionKidPool, MaxCondKids)}

CondPrice ==
    Inner("condition", <<Node("identifier", t_price), Node("comparison_op", <<">">>),
                         ValueOf(Node("number", t_100))>>)
CondStock ==
    Inner("condition", <<Node("identifier", t_stock), Node("comparison_op", <<"<">>),
                         ValueOf(Node("number", t_50))>>)
CondActive == Inner("condition", <<Node("identifier", t_active)>>)
CondOverflow ==
    Inner("condition", <<Node("identifier", t_price), Node("comparison_op", <<"=">>),
                         ValueOf(Node("number", t_i64over))>>)

WhereNodes ==
    {Inner("where_clause", kids) :
        kids \in SeqsFromZero({Node("WHERE", <<"W","H","E","R","E">>), CondPrice,
                               CondStock, CondActive, Node("identifier", t_name)}, 3)}

ItemOf(inner) == Inner("select_item", <<inner>>)
ItemName == ItemOf(Node("identifier", t_name))
ItemAge == ItemOf(Node("identifier", t_age))
ItemId == ItemOf(Node("identifier", t_id))
ItemStar == ItemOf(Node("star", <<"*">>))
ItemEmpty == Inner("select_item", <<>>)
ItemNumber == ItemOf(Node("number", t_100))

\* select items whose function calls nest to depth d
RECURSIVE ItemNodes(_)
ItemNodes(d) ==
    LET base == {ItemName, ItemId, ItemStar, ItemEmpty, ItemNumber} IN
    IF d = 0 THEN base
    ELSE base
         \cup {ItemOf(Inner("function_call", <<>>)),
               ItemOf(Inner("function_call", <<Node("identifier", t_COUNT)>>))}
         \cup {ItemOf(Inner("function_call",
                            <<Node("identifier", t_COUNT), first>> \o rest)) :
                 first \in ItemNodes(d - 1),
                 rest \in SeqsFromZero({ItemAge, ItemEmpty}, MaxArgs - 1)}

ItemCount ==
    ItemOf(Inner("function_call", <<Node("identifier", t_COUNT), ItemId>>))

SelectListNodes ==
    {Inner("select_list", kids) :
        kids \in SeqsFromZero({ItemName, ItemAge, ItemEmpty, ItemCount,
                               Node("identifier", t_id)}, MaxCols)}

ListOne == Inner("select_list", <<ItemName>>)
ListTwo == Inner("select_list", <<ItemName, ItemAge>>)
ListNone == Inner("select_list", <<>>)
ListBadItem == Inner("select_list", <<ItemName, ItemEmpty, ItemAge>>)
ListBadRule == Inner("select_list", <<ItemName, Node("identifier", t_id)>>)

WherePrice == Inner("where_clause", <<Node("WHERE", <<"W","H","E","R","E">>), CondPrice>>)
WhereActive == Inner("where_clause", <<Node("WHERE", <<"W","H","E","R","E">>), CondActive>>)
WhereOverflow == Inner("where_clause", <<Node("WHERE", <<"W","H","E","R","E">>), CondOverflow>>)
WhereBare == Inner("where_clause", <<Node("WHERE", <<"W","H","E","R","E">>)>>)

TableUsers == Inner("table", <<Node("identifier", t_users)>>)
TableEmpty == Inner("table", <<>>)
TableBadRule == Inner("table", <<Node("star", <<"*">>)>>)
AliasNode == Inner("alias", <<Node("identifier", t_sub)>>)

QueryOf(lists, tables, wheres) ==
    Inner("select_query",
          <<Node("SELECT", <<"S","E","L","E","C","T">>)>> \o lists
          \o <<Node("FROM", <<"F","R","O","M">>)>> \o tables \o wheres)

\* the select_query nodes nested below a table, to subquery depth d
RECURSIVE InnerQueryNodes(_)
InnerQueryNodes(d) ==
    LET tables == {<<TableUsers>>, <<>>} \cup
                  (IF d = 0 THEN {}
                   ELSE {<<Inner("table", <<q, AliasNode>>)>> : q \in InnerQueryNodes(d - 1)})
    IN  {QueryOf(l, t, w) : l \in {<<ListTwo>>, <<ListBadItem>>}, t \in tables,
                            w \in {<<>>, <<WherePrice>>}}

TableNodes ==
    {TableUsers, TableEmpty, TableBadRule}
    \cup {Inner("table", <<q>> \o a) : q \in InnerQueryNodes(MaxDepth - 1),
                                       a \in {<<>>, <<AliasNode>>}}

QueryNodes ==
    {QueryOf(l, t, w) :
        l \in {<<>>, <<ListOne>>, <<ListTwo>>, <<ListNone>>, <<ListBadItem>>,
               <<ListBadRule>>, <<ListBadItem, ListOne>>, <<ListOne, ListTwo>>},
        t \in {<<>>, <<TableUsers, TableEmpty>>} \cup {<<t1>> : t1 \in TableNodes},
        w \in {<<>>, <<WherePrice>>, <<WhereActive>>, <<WhereOverflow>>, <<WhereBare>>}}

InitBuilder ==
    /\ input = <<>>
    /\ result = <<>>
    /\ pc = "ready"
    /\ \/ stage = "build_query_structure" /\ tree \in {<<n>> : n \in QueryNodes}
       \/ stage = "selected_rows_parser" /\ tree \in {<<n>> : n \in SelectListNodes}
       \/ stage = "parse_select_item" /\ tree \in {<<n>> : n \in ItemNodes(MaxDepth)}
       \/ stage = "table_parser" /\ tree \in {<<n>> : n \in TableNodes}
       \/ stage = "where_parser" /\ tree \in {<<n>> : n \in WhereNodes}
       \/ stage = "parse_condition" /\ tree \in {<<n>> : n \in ConditionNodes}
       \/ stage = "parse_value" /\ tree \in {<<n>> : n \in ValueNodes}

Apply(f, r) ==
    /\ pc = "ready"
    /\ stage = f
    /\ result' = <<r>>
    /\ pc' = "done"
    /\ UNCHANGED <<input, tree, stage>>

BuildQueryStructure == Apply("build_query_structure", build_query_structure(tree[1]))
SelectedRowsParser == Apply("selected_rows_parser", selected_rows_parser(tree[1]))
ParseSelectItem == Apply("parse_select_item", parse_select_item(tree[1]))
TableParser == Apply("table_parser", table_parser(tree[1]))
WhereParser == Apply("where_parser", where_parser(tree[1]))
ParseCondition == Apply("parse_condition", parse_condition(tree[1]))
ParseValue == Apply("parse_value", parse_value(tree[1]))

NextBuilder ==
    \/ BuildQueryStructure
    \/ SelectedRowsParser
    \/ ParseSelectItem
    \/ TableParser
    \/ WhereParser
    \/ ParseCondition
    \/ ParseValue

SpecBuilder == InitBuilder /\ [][NextBuilder]_vars

\* parse_query on texts and the builder functions on trees, side by side
InitAll == Init \/ InitBuilder

NextAll == Next \/ NextBuilder

SpecAll == InitAll /\ [][NextAll]_vars

(***************************************************************************)
(* What the input text says, read off the tokens.                          *)
(***************************************************************************)
Outcome == result[1]
Ast == result[1].val[1]

HasKind(toks, k) == \E i \in 1..Len(toks) : toks[i].kind = k
FirstOf(toks, k) == Min({i \in 1..Len(toks) : toks[i].kind = k})

\* the number of parentheses open before token i
RECURSIVE OpenBefore(_, _)
OpenBefore(toks, i) ==
    IF i <= 1 THEN 0
    ELSE OpenBefore(toks, i - 1)
         + (IF toks[i - 1].kind = "lparen" THEN 1 ELSE 0)
         - (IF toks[i - 1].kind = "rparen" THEN 1 ELSE 0)

\* the select list is name (',' name)*, up to the first FROM
IsSimpleColumnList(toks) ==
    /\ Len(toks) >= 3 /\ toks[1].kind = "SELECT" /\ HasKind(toks, "FROM")
    /\ LET f == FirstOf(toks, "FROM") IN
       /\ f >= 3 /\ f % 2 = 1
       /\ \A i \in 2..(f - 1) :
            toks[i].kind = (IF i % 2 = 0 THEN "identifier" ELSE "comma")

SimpleColumnNames(toks) ==
    [i \in 1..((FirstOf(toks, "FROM") - 1) \div 2) |-> toks[2 * i].text]

\* C1: a valid input whose select list is N >= 1 comma-separated simple
\* columns parses, and columns is exactly the N Column items named as in the
\* text, in the order of the text.
C1_SimpleColumnsInSourceOrder ==
    (pc = "done" /\ input \in ValidInputs /\ IsSimpleColumnList(input)) =>
        /\ Outcome.ok
        /\ Ast.columns = [i \in 1..Len(SimpleColumnNames(input)) |->
                             Column(SimpleColumnNames(input)[i])]

C1_Witness ==
    /\ pc = "done" /\ input \in ValidInputs /\ IsSimpleColumnList(input)
    /\ SimpleColumnNames(input) = <<t_name, t_age, t_name>>
    /\ Outcome.ok /\ Len(Ast.columns) = 3

IsTable(t) ==
    \/ t.type = "Simple" /\ t.query = <<>>
    \/ t.type = "Subquery" /\ Len(t.query) = 1

\* C2: every SelectQuery parse_query returns as a success has at least one
\* column and exactly one Table.
C2_SuccessHasColumnAndTable ==
    (pc = "done" /\ Outcome.ok) =>
        /\ Len(Outcome.val) = 1
        /\ Len(Ast.columns) >= 1
        /\ IsTable(Ast.table)

C2_Witness ==
    /\ pc = "done" /\ Outcome.ok /\ input \in DamagedInputs \ ValidInputs
    /\ Len(Ast.columns) = 1 /\ Ast.table.type = "Subquery"

WhereAtTopLevel(toks) ==
    \E i \in 1..Len(toks) : toks[i].kind = "WHERE" /\ OpenBefore(toks, i) = 0

\* C3: in a successfully parsed SelectQuery, where_clause is Some exactly
\* when a WHERE appears in the text of that query (outside any parentheses).
C3_WhereIffInSource ==
    (pc = "done" /\ Outcome.ok) =>
        ((Ast.where_clause # <<>>) <=> WhereAtTopLevel(input))

\* the position after the first FROM, where the table starts
TableStart(toks) == FirstOf(toks, "FROM") + 1

\* the parenthesis closing the one at position i
MatchingClose(toks, i) ==
    Min({j \in (i + 1)..Len(toks) :
            toks[j].kind = "rparen" /\ OpenBefore(toks, j) = OpenBefore(toks, i) + 1})

\* the text between the parentheses of a subquery table
InnerText(toks) ==
    SubSeq(toks, TableStart(toks) + 1, MatchingClose(toks, TableStart(toks)) - 1)

\* the invariants of a SelectQuery built from the text toks, at every depth
RECURSIVE SatisfiesInvariants(_, _)
SatisfiesInvariants(q, toks) ==
    /\ Len(q.columns) >= 1
    /\ IsTable(q.table)
    /\ (q.where_clause # <<>>) <=> WhereAtTopLevel(toks)
    /\ q.table.type = "Subquery" =>
          SatisfiesInvariants(q.table.query[1], InnerText(toks))

\* C4: a table that is a parenthesised select_query is built as Subquery
\* wrapping exactly what the builder returns for the text between the
\* parentheses, whatever alias follows; the inner query has at least one
\* column, one table, and a where_clause exactly when its own text has a
\* WHERE, at every depth.  A table that is an identifier is Simple(name).
C4_SubqueryWrapsInnerQuery ==
    (pc = "done" /\ Outcome.ok) =>
        LET s == TableStart(input) IN
        /\ input[s].kind = "identifier" => Ast.table = Simple(input[s].text)
        /\ input[s].kind = "lparen" =>
              /\ Ast.table.type = "Subquery"
              /\ parse_query(InnerText(input)).ok
              /\ Ast.table.query = parse_query(InnerText(input)).val
              /\ SatisfiesInvariants(Ast.table.query[1], InnerText(input))

C4_Witness ==
    /\ pc = "done" /\ Outcome.ok /\ HasKind(input, "AS")
    /\ Ast.table.type = "Subquery"
    /\ Ast.table.query[1].table.type = "Subquery"
    /\ Ast.table.query[1].table.query[1].where_clause # <<>>
    /\ Ast.table.query[1].where_clause = <<>>
    /\ Len(Ast.table.query[1].table.query[1].columns) = 2

\* what the claim says a select_item node becomes
RECURSIVE ExpectedItem(_), ItemBuilds(_)
ExpectedItem(item) ==
    LET inner == item.kids[1] IN
    CASE inner.rule = "identifier" -> Column(inner.text)
      [] inner.rule = "star" -> Column(<<"*">>)
      [] inner.rule = "function_call" ->
            Function(inner.kids[1].text,
                     [i \in 1..(Len(inner.kids) - 1) |-> ExpectedItem(inner.kids[i + 1])])

ItemBuilds(item) ==
    /\ item.kids # <<>>
    /\ LET inner == item.kids[1] IN
       \/ inner.rule \in {"identifier", "star"}
       \/ /\ inner.rule = "function_call"
          /\ inner.kids # <<>>
          /\ \A i \in 2..Len(inner.kids) : ItemBuilds(inner.kids[i])

\* C5: a select item holding a function_call becomes Function{name,
\* arguments}: name is the text of the call's first child, arguments are the
\* items built from the remaining children, as many and in the same order, at
\* any depth of nesting; an identifier becomes Column(name), a star Column("*").
C5_FunctionCallItem ==
    (pc = "done" /\ stage = "parse_select_item") =>
        /\ Outcome.ok <=> ItemBuilds(tree[1])
        /\ Outcome.ok => Ast = ExpectedItem(tree[1])

C5_Witness ==
    /\ pc = "done" /\ stage = "parse_select_item" /\ Outcome.ok
    /\ Ast.type = "Function" /\ Ast.name = t_COUNT /\ Len(Ast.arguments) = 2
    /\ Ast.arguments[1].type = "Function"
    /\ Ast.arguments[1].arguments = <<Column(<<"*">>), Column(t_age)>>
    /\ Ast.arguments[2] = Column(t_age)

ErrorKinds ==
    {"ParsingError", "NoQueryFound", "TableNotSpecified",
     "UnexpectedRuleInSelectList", "UnexpectedRuleInSelectItem",
     "MissingSelectItem", "MissingTableName", "UnexpectedRuleInTable",
     "NoConditionInWhereClause", "MissingLeftOperand", "MissingOperator",
     "MissingRightOperand", "InvalidNumber", "UnexpectedRuleInValue",
     "ExpectedInnerRuleForValue", "FunctionNameMissing",
     "UnexpectedRuleInSelectListOther"}

Raises(log) == {i \in 1..Len(log) : log[i][1] = "raise"}

\* C6: a builder call ends in a complete value or in one classified error,
\* never both; the error is the one raised first, nothing is entered after
\* it, and it reaches the caller unchanged.
C6_FailFast ==
    pc = "done" =>
        /\ Outcome.ok =>
              Len(Outcome.val) = 1 /\ Outcome.err = "none" /\ Raises(Outcome.log) = {}
        /\ ~Outcome.ok =>
              /\ Outcome.val = <<>>
              /\ Outcome.err \in ErrorKinds
              /\ Raises(Outcome.log) = {Len(Outcome.log)}
              /\ Outcome.log[Len(Outcome.log)] = <<"raise", Outcome.err>>

\* a select list that fails before a table and a where clause that would fail
C6_Witness ==
    /\ pc = "done" /\ stage = "build_query_structure"
    /\ tree[1] = QueryOf(<<ListBadItem>>, <<TableEmpty>>, <<WhereActive>>)
    /\ ~Outcome.ok /\ Outcome.err = "MissingSelectItem"

BuilderEntered(log) == \E i \in 1..Len(log) : log[i] = <<"call", "build_query_structure">>

EmptySelectList(toks) == KindAt(toks, 1) = "SELECT" /\ KindAt(toks, 2) = "FROM"

\* C7 as stated: an empty select list fails with the missing-select-item error.
C7_EmptySelectListIsMissingSelectItem ==
    (pc = "done" /\ stage = "parse_query" /\ EmptySelectList(input)) =>
        ~Outcome.ok /\ Outcome.err = "MissingSelectItem"

\* C7, amended: an empty select list fails in the recognizer, with the
\* syntax-rejection error, and the builder is not entered.
C7_EmptySelectListIsRejected ==
    (pc = "done" /\ stage = "parse_query" /\ EmptySelectList(input)) =>
        ~Outcome.ok /\ Outcome.err = "ParsingError" /\ ~BuilderEntered(Outcome.log)

C7_Witness ==
    pc = "done" /\ input = SelectFromUsers /\ ~Outcome.ok

\* a select list and then the end of the text, or FROM and the end of the text
NoFromTarget(toks) ==
    /\ KindAt(toks, 1) = "SELECT" /\ KindAt(toks, 2) \in {"identifier", "star"}
    /\ \/ ~HasKind(toks, "FROM")
       \/ FirstOf(toks, "FROM") = Len(toks)

\* C8 as stated: a select list with no FROM target fails with
\* table-not-specified.
C8_NoFromIsTableNotSpecified ==
    (pc = "done" /\ stage = "parse_query" /\ NoFromTarget(input)) =>
        ~Outcome.ok /\ Outcome.err = "TableNotSpecified"

\* C8, amended: a select list with no FROM target fails in the recognizer,
\* with the syntax-rejection error, and the builder is not entered.
C8_NoFromIsRejected ==
    (pc = "done" /\ stage = "parse_query" /\ NoFromTarget(input)) =>
        ~Outcome.ok /\ Outcome.err = "ParsingError" /\ ~BuilderEntered(Outcome.log)

C8_Witness ==
    pc = "done" /\ input = SelectNameAge /\ ~Outcome.ok

\* C9: the condition builder reads left, operator, right by position, and so
\* "SELECT name FROM users WHERE active" fails with missing-operator or
\* missing-right-operand.
C9_WhereActiveFails ==
    (pc = "done" /\ input = SelectWhereActive) =>
        ~Outcome.ok /\ Outcome.err \in {"MissingOperator", "MissingRightOperand"}

\* the positional part of C9, on condition nodes with 0 to MaxCondKids children
C9_PositionalOperands ==
    (pc = "done" /\ stage = "parse_condition") =>
        LET kids == tree[1].kids IN
        CASE Len(kids) = 0 -> ~Outcome.ok /\ Outcome.err = "MissingLeftOperand"
          [] Len(kids) = 1 -> ~Outcome.ok /\ Outcome.err = "MissingOperator"
          [] Len(kids) = 2 -> ~Outcome.ok /\ Outcome.err = "MissingRightOperand"
          [] OTHER ->
                IF parse_value(kids[3]).ok
                THEN Outcome.ok /\ Ast = Condition(kids[1].text, kids[2].text,
                                                   parse_value(kids[3]).val[1])
                ELSE ~Outcome.ok /\ Outcome.err = parse_value(kids[3]).err

\* C10: a string token becomes Value::String of the token's text without its
\* first and last character, every other character kept as it is.
C10_StringDelimitersStripped ==
    (pc = "done" /\ stage = "parse_value" /\ tree[1].kids # <<>>
        /\ tree[1].kids[1].rule = "string") =>
        LET text == tree[1].kids[1].text IN
        /\ Outcome.ok /\ Ast.type = "String"
        /\ Len(Ast.v) = Len(text) - 2
        /\ \A i \in 1..Len(Ast.v) : Ast.v[i] = text[i + 1]

C10_Witness ==
    /\ pc = "done" /\ stage = "parse_value" /\ Outcome.ok
    /\ tree[1].kids[1] = Node("string", t_esc)
    /\ Ast = String(<<"A", "\\", "n">>)

ConditionKids(kids) == {i \in 1..Len(kids) : kids[i].rule = "condition"}

CallsOf(log, f) == Cardinality({i \in 1..Len(log) : log[i] = <<"call", f>>})

\* C11: a where clause with a condition child is built as the Condition of
\* its first condition child, and nothing after that child is looked at; so
\* "SELECT id FROM products WHERE price > 100 AND stock < 50" parses, with
\* where_clause {price, >, Number(100)} and no trace of the second predicate.
C11_FirstConditionOnly ==
    pc = "done" =>
        /\ (stage = "where_parser" /\ ConditionKids(tree[1].kids) # {}) =>
              LET first == parse_condition(tree[1].kids[Min(ConditionKids(tree[1].kids))])
              IN  /\ Outcome.ok = first.ok
                  /\ Outcome.val = first.val
                  /\ Outcome.err = first.err
                  /\ CallsOf(Outcome.log, "parse_condition") = 1
        /\ (stage = "parse_query" /\ input = SelectTwoConditions) =>
              /\ Outcome.ok
              /\ Ast = SelectQuery(<<Column(t_id)>>, Simple(t_products),
                                   <<Condition(t_price, <<">">>,
                                               Number(I64(FALSE, <<1, 0, 0>>)))>>)

C11_Witness ==
    /\ pc = "done" /\ stage = "where_parser"
    /\ tree[1].kids = <<Node("WHERE", <<"W","H","E","R","E">>), CondPrice, CondStock>>
    /\ Outcome.ok
    /\ Ast = Condition(t_price, <<">">>, Number(I64(FALSE, <<1, 0, 0>>)))

\* the operator of every where_clause of a query, at every depth, is supported
RECURSIVE OperatorsSupported(_)
OperatorsSupported(q) ==
    /\ q.where_clause # <<>> => q.where_clause[1].operator \in Operators
    /\ q.table.type = "Subquery" => OperatorsSupported(q.table.query[1])

\* C12: in every successfully parsed SelectQuery, at any subquery depth, the
\* operator of a where_clause is one of =, >, <, >=, <=, !=.
C12_OperatorIsSupported ==
    (pc = "done" /\ stage = "parse_query" /\ Outcome.ok) => OperatorsSupported(Ast)

C12_Witness ==
    /\ pc = "done" /\ stage = "parse_query" /\ Outcome.ok
    /\ Ast.where_clause # <<>> /\ Ast.where_clause[1].operator = <<"!", "=">>
    /\ Ast.table.type = "Subquery"
    /\ Ast.table.query[1].where_clause # <<>>
    /\ Ast.table.query[1].where_clause[1].operator = <<">", "=">>

\* a text with an operator outside the six is accepted up to its WHERE
C12_UnsupportedWitness ==
    /\ pc = "done" /\ input \in UnsupportedOperatorInputs /\ Outcome.ok
    /\ Ast.where_clause = <<>>

IsNumberText(t) ==
    LET body == IF t # <<>> /\ t[1] \in {"+", "-"} THEN Tail(t) ELSE t IN
    body # <<>> /\ \A i \in 1..Len(body) : IsDigit(body[i])

\* the decimal value of a number text: its sign and its digits without
\* leading zeros
DecimalValue(t) ==
    LET body == IF t[1] \in {"+", "-"} THEN Tail(t) ELSE t
        mag  == StripZeros([i \in 1..Len(body) |-> DigitVal(body[i])])
    IN  [neg |-> t[1] = "-" /\ mag # <<0>>, mag |-> mag]

\* -2^63 <= v <= 2^63 - 1
FitsI64(v) ==
    \/ Len(v.mag) < 19
    \/ /\ Len(v.mag) = 19
       /\ DigitsLeq(v.mag, IF v.neg THEN I64MinMag ELSE I64MaxMag)

\* C14: a number token becomes Value::Number of its decimal value when that
\* value fits a signed 64-bit integer, and fails with the invalid-number
\* error when it does not fit or the text is not a decimal number; no other
\* number is ever returned.
C14_NumberFitsOrFails ==
    (pc = "done" /\ stage = "parse_value" /\ tree[1].kids # <<>>
        /\ tree[1].kids[1].rule = "number") =>
        LET text == tree[1].kids[1].text IN
        IF IsNumberText(text) /\ FitsI64(DecimalValue(text))
        THEN Outcome.ok /\ Ast = Number(DecimalValue(text))
        ELSE ~Outcome.ok /\ Outcome.err = "InvalidNumber"

C14_Witness ==
    /\ pc = "done" /\ stage = "parse_value" /\ tree[1].kids # <<>>
    /\ tree[1].kids[1] = Node("number", <<"-">> \o t_i64over)
    /\ Outcome.ok /\ Ast = Number([neg |-> TRUE, mag |-> I64MinMag])

\* one past each end of the range, and a text that is not a number
C14_OverflowWitness ==
    /\ pc = "done" /\ stage = "parse_value" /\ tree[1].kids # <<>>
    /\ tree[1].kids[1].rule = "number"
    /\ tree[1].kids[1].text \in {t_i64over, <<"-">> \o t_i64min_under, <<"1","x">>}
    /\ ~Outcome.ok /\ Outcome.err = "InvalidNumber"

====
